---- MODULE Spec2Model ----
(***************************************************************************)
(* The mini-ORM of tkp/database/dataset.py: DBObject and its three         *)
(* subclasses DataSet, Image and ExtractedSource, each a handle on one row *)
(* of one table.  A handle keeps an in-memory snapshot (_data) of its row; *)
(* the row itself lives in the database.                                   *)
(*                                                                         *)
(* The database helpers of tkp/database/utils.py (module dbu) are no part  *)
(* of the sources at hand; they are modelled from the specification.       *)
(***************************************************************************)
EXTENDS Integers, Sequences, FiniteSets, TLC

VARIABLES
    db,        \* the persisted tables: table name -> sequence of rows; a row's id is its index
    handles,   \* the live Python objects, in order of construction
    last,      \* the call that has just ended and how it ended; Idle between calls
    passes     \* the association passes run so far: <<dataset id, start time>> of their images

vars == <<db, handles, last, passes>>

----------------------------------------------------------------------------
(* Bounds *)

\* at most this many live handles
MaxHandles == 3

----------------------------------------------------------------------------
(* Values *)

\* Python's None, for _id, dataset and image
None == 0

\* what a column holds when an INSERT gave it no value
NULL == 0

\* attribute values and ids a caller supplies
Vals == {1, 2}

\* a dict with no keys
EmptyDict == [k \in {} |-> NULL]

NoError == "none"

Classes == {"DataSet", "Image", "ExtractedSource"}

----------------------------------------------------------------------------
(* Class attributes *)

TABLE(cls) ==
    CASE cls = "DataSet" -> "datasets"
      [] cls = "Image" -> "images"
      [] cls = "ExtractedSource" -> "extractedsources"

REQUIRED(cls) ==
    CASE cls = "DataSet" -> {"dsinname"}
      [] cls = "Image" -> {"ds_id", "tau_time", "freq_eff", "freq_bw", "taustart_ts"}
      [] cls = "ExtractedSource" ->
            {"image_id", "zone", "ra", "decl", "ra_err", "decl_err",
             "x", "y", "z", "det_sigma"}

\* the columns of each table, the id column apart (a row's id is its index)
Columns(table) ==
    CASE table = "datasets" -> {"dsinname"}
      [] table = "images" ->
            {"ds_id", "tau_time", "freq_eff", "freq_bw", "taustart_ts", "url"}
      [] table = "extractedsources" ->
            {"image_id", "zone", "ra", "decl", "ra_err", "decl_err",
             "x", "y", "z", "det_sigma"}

\* the column that refers to the owner's row, and the owner's class
OwnerKey(cls) ==
    CASE cls = "Image" -> "ds_id"
      [] cls = "ExtractedSource" -> "image_id"
      [] OTHER -> ""

----------------------------------------------------------------------------
(* The database helpers, module dbu *)

HasRow(d, table, id) == id \in 1 .. Len(d[table])

\* dbu.columns_from_table(conn, table, keywords=None, where={ID: id}):
\* the list of matching rows, each a dict of all its columns
ColumnsFromTable(d, table, id) ==
    IF HasRow(d, table, id) THEN <<d[table][id]>> ELSE <<>>

\* dbu.set_columns_for_table(conn, table, data=kwargs, where={ID: id}):
\* the keys of data that are columns are written, the others are ignored
SetColumnsForTable(d, table, data, id) ==
    IF HasRow(d, table, id)
    THEN [d EXCEPT ![table][id] =
            [c \in Columns(table) |-> IF c \in DOMAIN data THEN data[c] ELSE @[c]]]
    ELSE d

\* INSERT INTO table (keys of data) VALUES (values of data): the new row,
\* with NULL in every column not named
NewRow(table, data) ==
    [c \in Columns(table) |-> IF c \in DOMAIN data THEN data[c] ELSE NULL]

InsertRow(d, table, data) == [d EXCEPT ![table] = Append(@, NewRow(table, data))]

\* cursor.lastrowid after the insert
LastRowId(d, table) == Len(d[table])

\* dbu.insert_dataset(conn, dsinname)
InsertDataset(d, dsinname) ==
    InsertRow(d, "datasets", [k \in {"dsinname"} |-> dsinname])

\* dbu.insert_image(conn, dsid, freq_eff, freq_bw, taustart_ts, url)
InsertImage(d, dsid, freq_eff, freq_bw, taustart_ts, url) ==
    InsertRow(d, "images",
              [ds_id |-> dsid, freq_eff |-> freq_eff, freq_bw |-> freq_bw,
               taustart_ts |-> taustart_ts, url |-> url])

----------------------------------------------------------------------------
(* DBObject *)

\* what a method returns to the model: the handles and the database as it
\* left them, and the exception it raised
Ret(hs, d, err) == [hs |-> hs, db |-> d, err |-> err]

\* DBObject.__init__: the fields every handle has.  images is DataSet's set,
\* sources is Image's, dataset and image are the owners (None when absent);
\* returned: whether the constructor has returned normally
DBObjectInit(cls, data, database, id) ==
    [cls |-> cls, _id |-> id, _data |-> data, database |-> database,
     dataset |-> None, image |-> None, images |-> {}, sources |-> {},
     returned |-> FALSE]

\* __getattr__ gone wrong: the value is read from the database row
__getattr__reading_row(self, name) ==
    IF name \in DOMAIN self._data
    THEN [err |-> NoError,
          value |-> IF self._id \in 1 .. Len(db[TABLE(self.cls)])
                       /\ name \in Columns(TABLE(self.cls))
                    THEN db[TABLE(self.cls)][self._id][name]
                    ELSE self._data[name]]
    ELSE [err |-> "AttributeError", value |-> NULL]

\* DBObject.__getattr__
__getattr__(self, name) ==
    IF name \in DOMAIN self._data
    THEN [err |-> NoError, value |-> self._data[name]]
    ELSE [err |-> "AttributeError", value |-> NULL]

\* _sync_with_database gone wrong: the row is merged under the values the
\* object already holds
_sync_with_database_keeping_own(hs, d, i) ==
    LET results == ColumnsFromTable(d, TABLE(hs[i].cls), hs[i]._id)
    IN  IF Len(results) = 0
        THEN Ret(hs, d, "IndexError")
        ELSE Ret([hs EXCEPT ![i]._data = @ @@ results[1]], d, NoError)

\* DBObject._sync_with_database
_sync_with_database(hs, d, i) ==
    LET results == ColumnsFromTable(d, TABLE(hs[i].cls), hs[i]._id)
    IN  IF Len(results) = 0
        THEN Ret(hs, d, "IndexError")
        ELSE Ret([hs EXCEPT ![i]._data = results[1]], d, NoError)

\* DBObject._set_data
_set_data(hs, d, i, kwargs) ==
    IF DOMAIN kwargs = {}
    THEN Ret(hs, d, NoError)
    ELSE Ret([hs EXCEPT ![i]._data = kwargs @@ @],
             SetColumnsForTable(d, TABLE(hs[i].cls), kwargs, hs[i]._id),
             NoError)

\* update gone wrong: the database is written without being read first
update_without_sync(hs, d, i, kwargs) == _set_data(hs, d, i, kwargs)

\* DBObject.update
update(hs, d, i, kwargs) ==
    LET r == _sync_with_database(hs, d, i)
    IN  IF r.err # NoError THEN r ELSE _set_data(r.hs, r.db, i, kwargs)

\* a method's result with the value it returns
RetVal(hs, d, err, value) == [hs |-> hs, db |-> d, err |-> err, value |-> value]

\* DBObject.id, were it to set _id before the INSERT is known to have worked
DBObject_id_assigning_before_insert(hs, d, i, dbok) ==
    LET self == hs[i]
        table == TABLE(self.cls)
    IN  IF self._id = None
        THEN IF dbok /\ DOMAIN self._data \subseteq Columns(table)
             THEN LET d1 == InsertRow(d, table, self._data)
                  IN  RetVal([hs EXCEPT ![i]._id = LastRowId(d1, table)], d1,
                             NoError, LastRowId(d1, table))
             ELSE RetVal([hs EXCEPT ![i]._id = Len(d[table]) + 1], d,
                         "DatabaseError", None)
        ELSE RetVal(hs, d, NoError, self._id)

\* DBObject.id, the accessor ExtractedSource inherits: a generic INSERT of
\* all of _data.  dbok: whether the database accepts the statement
DBObject_id(hs, d, i, dbok) ==
    LET self == hs[i]
        table == TABLE(self.cls)
    IN  IF self._id = None
        THEN IF dbok /\ DOMAIN self._data \subseteq Columns(table)
             THEN LET d1 == InsertRow(d, table, self._data)
                  IN  RetVal([hs EXCEPT ![i]._id = LastRowId(d1, table)], d1,
                             NoError, LastRowId(d1, table))
             ELSE RetVal(hs, d, "DatabaseError", None)
        ELSE RetVal(hs, d, NoError, self._id)

\* DataSet.id gone wrong: a row is inserted on every access
DataSet_id_always_inserting(hs, d, i, dbok) ==
    LET self == hs[i]
    IN  IF "dsinname" \notin DOMAIN self._data
        THEN RetVal(hs, d, "KeyError", None)
        ELSE IF dbok
        THEN LET d1 == InsertDataset(d, self._data["dsinname"])
             IN  RetVal([hs EXCEPT ![i]._id = LastRowId(d1, "datasets")], d1,
                        NoError, LastRowId(d1, "datasets"))
        ELSE RetVal(hs, d, "DatabaseError", None)

\* DataSet.id
DataSet_id(hs, d, i, dbok) ==
    LET self == hs[i]
    IN  IF self._id = None
        THEN IF "dsinname" \notin DOMAIN self._data
             THEN RetVal(hs, d, "KeyError", None)
             ELSE IF dbok
             THEN LET d1 == InsertDataset(d, self._data["dsinname"])
                  IN  RetVal([hs EXCEPT ![i]._id = LastRowId(d1, "datasets")], d1,
                             NoError, LastRowId(d1, "datasets"))
             ELSE RetVal(hs, d, "DatabaseError", None)
        ELSE RetVal(hs, d, NoError, self._id)

\* Image.id gone wrong: the row gets the ds_id of _data, not the dataset's id
Image_id_with_ds_id_of_data(hs, d, i, dbok) ==
    LET self == hs[i]
    IN  IF self._id = None
        THEN IF self.dataset = None
             THEN RetVal(hs, d, "AttributeError: NoneType", None)
             ELSE IF ~({"ds_id", "freq_eff", "freq_bw", "taustart_ts", "url"}
                           \subseteq DOMAIN self._data)
             THEN RetVal(hs, d, "KeyError", None)
             ELSE IF dbok
             THEN LET d1 == InsertImage(d, self._data["ds_id"],
                                self._data["freq_eff"], self._data["freq_bw"],
                                self._data["taustart_ts"], self._data["url"])
                  IN  RetVal([hs EXCEPT ![i]._id = LastRowId(d1, "images")],
                             d1, NoError, LastRowId(d1, "images"))
             ELSE RetVal(hs, d, "DatabaseError", None)
        ELSE RetVal(hs, d, NoError, self._id)

\* Image.id
Image_id(hs, d, i, dbok) ==
    LET self == hs[i]
    IN  IF self._id = None
        THEN IF self.dataset = None
             THEN RetVal(hs, d, "AttributeError: NoneType", None)
             ELSE LET ds == DataSet_id(hs, d, self.dataset, dbok)
                  IN  IF ds.err # NoError
                      THEN ds
                      ELSE IF ~({"freq_eff", "freq_bw", "taustart_ts", "url"}
                                    \subseteq DOMAIN self._data)
                      THEN RetVal(ds.hs, ds.db, "KeyError", None)
                      ELSE IF dbok
                      THEN LET d1 == InsertImage(ds.db, ds.value,
                                         self._data["freq_eff"], self._data["freq_bw"],
                                         self._data["taustart_ts"], self._data["url"])
                           IN  RetVal([ds.hs EXCEPT ![i]._id = LastRowId(d1, "images")],
                                      d1, NoError, LastRowId(d1, "images"))
                      ELSE RetVal(ds.hs, ds.db, "DatabaseError", None)
        ELSE RetVal(hs, d, NoError, self._id)

\* obj.id, dispatched on the object's class
id(hs, d, i, dbok) ==
    CASE hs[i].cls = "DataSet" -> DataSet_id(hs, d, i, dbok)
      [] hs[i].cls = "Image" -> Image_id(hs, d, i, dbok)
      [] hs[i].cls = "ExtractedSource" -> DBObject_id(hs, d, i, dbok)

\* _init_data gone wrong: with an id, the data supplied is written to the row
_init_data_applying_data(hs, d, i, dbok) ==
    IF hs[i]._id # None
    THEN update(hs, d, i, hs[i]._data)
    ELSE IF \E key \in REQUIRED(hs[i].cls) : key \notin DOMAIN hs[i]._data
    THEN Ret(hs, d, "AttributeError: missing required data key")
    ELSE LET r == id(hs, d, i, dbok) IN Ret(r.hs, r.db, r.err)

\* DBObject._init_data
_init_data(hs, d, i, dbok) ==
    IF hs[i]._id # None
    THEN update(hs, d, i, EmptyDict)
    ELSE IF \E key \in REQUIRED(hs[i].cls) : key \notin DOMAIN hs[i]._data
    THEN Ret(hs, d, "AttributeError: missing required data key")
    ELSE LET r == id(hs, d, i, dbok) IN Ret(r.hs, r.db, r.err)

\* dict.setdefault(key, value)
setdefault(data, key, value) ==
    IF key \in DOMAIN data THEN data ELSE (key :> value) @@ data

----------------------------------------------------------------------------
(* The constructors.  The new object is handle Len(hs) + 1. *)

\* DataSet.__init__
DataSet__init__(hs, d, data, database, id_, dbok) ==
    LET n == Len(hs) + 1
        hs1 == Append(hs, DBObjectInit("DataSet", data, database, id_))
    IN  IF ~hs1[n].database
        THEN Ret(hs1, d, "ValueError")
        ELSE _init_data(hs1, d, n, dbok)

\* Image.__init__
Image__init__(hs, d, data, dataset, database, id_, dbok) ==
    LET n == Len(hs) + 1
        hs1 == Append(hs, [DBObjectInit("Image", data, database, id_)
                              EXCEPT !.dataset = dataset])
        \* if self.dataset: take its database, join its images, default ds_id
        hs2 == IF dataset = None THEN hs1
               ELSE [hs1 EXCEPT ![n].database = @ \/ hs1[dataset].database,
                                ![dataset].images = @ \cup {n}]
        ds == IF dataset = None THEN RetVal(hs2, d, NoError, None)
              ELSE DataSet_id(hs2, d, dataset, dbok)
        hs3 == IF dataset = None THEN hs2
               ELSE [ds.hs EXCEPT ![n]._data = setdefault(@, "ds_id", ds.value)]
    IN  IF ds.err # NoError
        THEN Ret(ds.hs, ds.db, ds.err)
        ELSE IF ~hs3[n].database
        THEN Ret(hs3, ds.db, "ValueError")
        ELSE _init_data(hs3, ds.db, n, dbok)

\* ExtractedSource.__init__
ExtractedSource__init__(hs, d, data, image, database, id_, dbok) ==
    LET n == Len(hs) + 1
        hs1 == Append(hs, [DBObjectInit("ExtractedSource", data, database, id_)
                              EXCEPT !.image = image])
    IN  IF image # None /\ hs1[image].dataset = None
        THEN \* self.image.dataset.database, with dataset None
             Ret(hs1, d, "AttributeError: NoneType")
        ELSE
        LET hs2 == IF image = None THEN hs1
                   ELSE [hs1 EXCEPT
                           ![n].database = @ \/ hs1[hs1[image].dataset].database,
                           ![image].sources = @ \cup {n}]
            im == IF image = None THEN RetVal(hs2, d, NoError, None)
                  ELSE Image_id(hs2, d, image, dbok)
            hs3 == IF image = None THEN hs2
                   ELSE [im.hs EXCEPT ![n]._data = setdefault(@, "image_id", im.value)]
        IN  IF im.err # NoError
            THEN Ret(im.hs, im.db, im.err)
            ELSE IF ~hs3[n].database
            THEN Ret(hs3, im.db, "ValueError")
            ELSE _init_data(hs3, im.db, n, dbok)

----------------------------------------------------------------------------
(* The methods of DataSet and Image *)

\* SELECT imageid FROM images WHERE ds_id = dsid
SelectImageIds(d, dsid) ==
    {r \in 1 .. Len(d["images"]) : d["images"][r]["ds_id"] = dsid}

\* the k-th id of a set of ids, in increasing order
Nth(ids, k) == CHOOSE x \in ids : Cardinality({y \in ids : y < x}) = k - 1

\* Image(database=database, id=id_): constructed without a dataset, the
\* object touches no other object
LoadedImage(d, database, id_) ==
    Image__init__(<<>>, d, EmptyDict, None, database, id_, TRUE)

\* the objects the loop of update_images leaves, made being the
\* constructor calls in the order of the ids: the first exception ends the
\* loop
Collected(hs, d, made) ==
    LET failed == {k \in DOMAIN made : made[k].err # NoError}
        upto == IF failed = {} THEN Len(made)
                ELSE CHOOSE k \in failed : \A j \in failed : k <= j
    IN  [hs |-> hs \o [k \in 1 .. upto |->
                          [made[k].hs[1] EXCEPT !.returned = (made[k].err = NoError)]],
         db |-> d,
         err |-> IF failed = {} THEN NoError ELSE made[upto].err,
         images |-> Len(hs) + 1 .. Len(hs) + Len(made)]

\* the loop of update_images: images.add(Image(database=self.database,
\* id=result[0])) for every result
LoadImages(hs, d, database, ids) ==
    Collected(hs, d, [k \in 1 .. Cardinality(ids) |->
                        LoadedImage(d, database, Nth(ids, k))])

\* self.images = images, when the loop has ended without exception
SetImages(r, i, images) ==
    IF r.err # NoError
    THEN Ret(r.hs, r.db, r.err)
    ELSE Ret([r.hs EXCEPT ![i].images = images], r.db, NoError)

\* update_images gone wrong: the images loaded are added to the set
update_images_merging(hs, d, i) ==
    SetImages(LoadImages(hs, d, hs[i].database, SelectImageIds(d, hs[i]._id)), i,
              hs[i].images \cup
                  (Len(hs) + 1 .. Len(hs) + Cardinality(SelectImageIds(d, hs[i]._id))))

\* DataSet.update_images
update_images(hs, d, i) ==
    SetImages(LoadImages(hs, d, hs[i].database, SelectImageIds(d, hs[i]._id)), i,
              Len(hs) + 1 .. Len(hs) + Cardinality(SelectImageIds(d, hs[i]._id)))

\* what a method that calls a function of module dbu does: the exception
\* raised, and the calls made, each with the arguments passed
Delegated(err, calls) == [err |-> err, calls |-> calls]

\* Image.associate_extracted_sources:
\* dbu.associate_extracted_sources(conn, self._id, deRuiter_r)
associate_extracted_sources(hs, d, i) ==
    Delegated(NoError, <<[image_id |-> hs[i]._id]>>)

\* the image an association pass is run for: its dataset and its start time
Pass(d, image_id) ==
    <<d["images"][image_id]["ds_id"], d["images"][image_id]["taustart_ts"]>>

\* Image.match_monitoringlist: dbu.match_runningcatalog_monitoringlist(
\* conn, self.dataset.id, image_id, ...)
match_monitoringlist(hs, d, i, update_image_column) ==
    LET self == hs[i]
        image_id == IF update_image_column THEN self._id ELSE -1
    IN  IF self.dataset = None
        THEN Delegated("AttributeError: NoneType", <<>>)
        ELSE Delegated(DataSet_id(hs, d, self.dataset, TRUE).err,
                       <<[dataset_id |-> DataSet_id(hs, d, self.dataset, TRUE).value,
                          image_id |-> image_id]>>)

\* Image.monitoringsources: dbu.list_monitoringsources(conn,
\* dataset_id=self.ds_id, exclude_image_id=exclude_image_id)
monitoringsources(hs, d, i, include_current) ==
    LET self == hs[i]
        exclude_image_id == IF include_current THEN None ELSE self._id
    IN  IF __getattr__(self, "ds_id").err # NoError
        THEN Delegated(__getattr__(self, "ds_id").err, <<>>)
        ELSE Delegated(NoError,
                       <<[dataset_id |-> __getattr__(self, "ds_id").value,
                          exclude_image_id |-> exclude_image_id]>>)

----------------------------------------------------------------------------
(* What the program calls with *)

\* the data dicts: none (data=None); every column, the owner key with any
\* value and every other key with the value 1; and that with one key left out
DropKeys(cls) ==
    CASE cls = "DataSet" -> {"dsinname"}
      [] cls = "Image" -> {"ds_id", "tau_time", "url"}
      [] cls = "ExtractedSource" -> {"image_id", "det_sigma"}

FullData(cls, v) ==
    [k \in Columns(TABLE(cls)) |-> IF k = OwnerKey(cls) THEN v ELSE 1]

Without(data, key) == [k \in DOMAIN data \ {key} |-> data[k]]

DataInputs(cls) ==
    {EmptyDict} \cup {FullData(cls, v) : v \in Vals}
                \cup {Without(FullData(cls, 1), k) : k \in DropKeys(cls)}

\* update()'s keyword arguments: none, or one keyword with the value 2
UpdateKeys(cls) ==
    CASE cls = "DataSet" -> {"dsinname"}
      [] cls = "Image" -> {"tau_time", "taustart_ts"}
      [] cls = "ExtractedSource" -> {"image_id"}

\* a keyword that names no column, passed to an ExtractedSource's update()
OtherKeys(cls) == IF cls = "ExtractedSource" THEN {"name"} ELSE {}

KwargInputs(cls) ==
    {EmptyDict} \cup {[k \in {key} |-> 2] : key \in UpdateKeys(cls) \cup OtherKeys(cls)}

\* the attribute names read: those update() writes, and one that is no key
NameInputs(cls) == UpdateKeys(cls) \cup {"name"}

\* the id argument
IdInputs == {None} \cup Vals

\* the handles the program holds: those a constructor returned.  An object
\* whose constructor raised is reachable only through its owner's set; the
\* program calls no method on it and passes it to no constructor
Held == {i \in 1 .. Len(handles) : handles[i].returned}

\* the handles of a class, for the dataset and image arguments
HandlesOf(cls) == {i \in Held : handles[i].cls = cls}

----------------------------------------------------------------------------
(* The calls *)

\* the record of a call: the method; the handle it was called on (for a
\* constructor, the new object); the exception raised; a constructor's
\* arguments id, data, dataset or image (owner) and database; update's
\* keyword arguments; the attribute name read and the value returned; the
\* boolean argument of match_monitoringlist and monitoringsources, and the
\* calls of a function of module dbu they made, with the arguments passed
Call(op, h, err) ==
    [op |-> op, h |-> h, err |-> err,
     id |-> None, data |-> EmptyDict, owner |-> None, database |-> FALSE,
     kwargs |-> EmptyDict, name |-> "", value |-> NULL,
     flag |-> FALSE, calls |-> <<>>]

\* no call has ended that the program has not yet gone on from
Idle == Call("", None, NoError)

IsReferenced(hs, n) ==
    \E i \in 1 .. Len(hs) : n \in hs[i].images \/ n \in hs[i].sources

\* the handles after a constructor ended: the new object stays when it
\* returned, or when an owner's set holds it; otherwise nothing refers to it
AfterInit(r, n) ==
    IF r.err = NoError
    THEN [r.hs EXCEPT ![n].returned = TRUE]
    ELSE IF IsReferenced(r.hs, n) THEN r.hs ELSE SubSeq(r.hs, 1, n - 1)

\* a constructor call; what it leaves must fit the bound on live handles
Constructed(cls, r, data, owner, database, id_) ==
    LET n == Len(handles) + 1
    IN  /\ Len(AfterInit(r, n)) <= MaxHandles
        /\ handles' = AfterInit(r, n)
        /\ db' = r.db
        /\ last' = [Call(cls, n, r.err) EXCEPT
                      !.id = id_, !.data = data, !.owner = owner,
                      !.database = database]
        /\ UNCHANGED passes

\* The arguments that cannot matter are not varied: with an id, data is
\* None or a full dict; with an id, nothing is inserted that the database
\* could refuse; with an owner, the database comes from the owner; and
\* without any database the constructor raises before it looks at the rest
DataArgs(cls, id_) ==
    IF id_ = None THEN DataInputs(cls) ELSE {EmptyDict, FullData(cls, 1)}

DbokArgs(id_) == IF id_ = None THEN BOOLEAN ELSE {TRUE}

OwnerArgs(cls) ==
    CASE cls = "DataSet" -> {None}
      [] cls = "Image" -> {None} \cup HandlesOf("DataSet")
      [] cls = "ExtractedSource" -> {None} \cup HandlesOf("Image")

CtorArgs(cls) ==
    {[id |-> None, data |-> EmptyDict, owner |-> None, database |-> FALSE,
      dbok |-> TRUE]}
    \cup UNION {UNION {{[id |-> id_, data |-> data, owner |-> owner,
                         database |-> (owner = None), dbok |-> dbok] :
                           data \in DataArgs(cls, id_), dbok \in DbokArgs(id_)} :
                       owner \in OwnerArgs(cls)} :
                id_ \in IdInputs}

\* cls(data=data, dataset|image=owner, database=database, id=id_)
Construct(cls, hs, d, data, owner, database, id_, dbok) ==
    CASE cls = "DataSet" -> DataSet__init__(hs, d, data, database, id_, dbok)
      [] cls = "Image" -> Image__init__(hs, d, data, owner, database, id_, dbok)
      [] cls = "ExtractedSource" ->
            ExtractedSource__init__(hs, d, data, owner, database, id_, dbok)

\* a constructor call with the arguments a
New(cls, a) ==
    Constructed(cls,
                Construct(cls, handles, db, a.data, a.owner, a.database, a.id, a.dbok),
                a.data, a.owner, a.database, a.id)

NewDataSet ==
    /\ last = Idle
    /\ \E a \in CtorArgs("DataSet") : New("DataSet", a)

NewImage ==
    /\ last = Idle
    /\ \E a \in CtorArgs("Image") : New("Image", a)

NewExtractedSource ==
    /\ last = Idle
    /\ \E a \in CtorArgs("ExtractedSource") : New("ExtractedSource", a)

\* obj.update(**kwargs)
Update ==
    /\ last = Idle
    /\ \E i \in Held :
       \E kwargs \in KwargInputs(handles[i].cls) :
        LET r == update(handles, db, i, kwargs)
        IN  /\ handles' = r.hs
            /\ db' = r.db
            /\ last' = [Call("update", i, r.err) EXCEPT !.kwargs = kwargs]
            /\ UNCHANGED passes

\* obj.<name>
GetAttr ==
    /\ last = Idle
    /\ \E i \in Held :
       \E name \in NameInputs(handles[i].cls) :
        LET r == __getattr__(handles[i], name)
        IN  /\ last' = [Call("getattr", i, r.err) EXCEPT
                          !.name = name, !.value = r.value]
            /\ UNCHANGED <<db, handles, passes>>

\* obj.id
AccessId ==
    /\ last = Idle
    /\ \E i \in Held :
       \E dbok \in DbokArgs(handles[i]._id) :
        LET r == id(handles, db, i, dbok)
        IN  /\ handles' = r.hs
            /\ db' = r.db
            /\ last' = [Call("id", i, r.err) EXCEPT !.value = r.value]
            /\ UNCHANGED passes

\* a method call on handle i that has ended as r says; the objects it made
\* must fit the bound on live handles
Called(op, i, r) ==
    /\ Len(r.hs) <= MaxHandles
    /\ handles' = r.hs
    /\ db' = r.db
    /\ last' = Call(op, i, r.err)
    /\ UNCHANGED passes

\* dataset.update_images()
UpdateImages ==
    /\ last = Idle
    /\ \E i \in HandlesOf("DataSet") :
          Called("update_images", i, update_images(handles, db, i))

\* image.match_monitoringlist(update_image_column=...)
MatchMonitoringlist ==
    /\ last = Idle
    /\ \E i \in HandlesOf("Image"), update_image_column \in BOOLEAN :
        LET r == match_monitoringlist(handles, db, i, update_image_column)
        IN  /\ last' = [Call("match_monitoringlist", i, r.err) EXCEPT
                          !.flag = update_image_column, !.calls = r.calls]
            /\ UNCHANGED <<db, handles, passes>>

\* image.monitoringsources(include_current=...)
Monitoringsources ==
    /\ last = Idle
    /\ \E i \in HandlesOf("Image"), include_current \in BOOLEAN :
        LET r == monitoringsources(handles, db, i, include_current)
        IN  /\ last' = [Call("monitoringsources", i, r.err) EXCEPT
                          !.flag = include_current, !.calls = r.calls]
            /\ UNCHANGED <<db, handles, passes>>

\* image.associate_extracted_sources()
AssociateExtractedSources ==
    /\ last = Idle
    /\ \E i \in HandlesOf("Image") :
        LET r == associate_extracted_sources(handles, db, i)
        IN  /\ last' = [Call("associate_extracted_sources", i, r.err) EXCEPT
                          !.calls = r.calls]
            /\ passes' = IF HasRow(db, "images", r.calls[1].image_id)
                          THEN passes \cup {Pass(db, r.calls[1].image_id)}
                          ELSE passes
            /\ UNCHANGED <<db, handles>>

\* the program goes on after a call
Return ==
    /\ last # Idle
    /\ last' = Idle
    /\ UNCHANGED <<db, handles, passes>>

Init ==
    /\ db = [t \in {"datasets", "images", "extractedsources"} |-> <<>>]
    /\ handles = <<>>
    /\ last = Idle
    /\ passes = {}

Next ==
    \/ NewDataSet
    \/ NewImage
    \/ NewExtractedSource
    \/ Update
    \/ GetAttr
    \/ AccessId
    \/ UpdateImages
    \/ MatchMonitoringlist
    \/ AssociateExtractedSources
    \/ Monitoringsources
    \/ Return

Spec == Init /\ [][Next]_vars

----------------------------------------------------------------------------
(* What the properties speak of *)

\* the persisted row a handle stands for
RowOf(d, h) == d[TABLE(h.cls)][h._id]

\* a constructor call without an id creates, one with an id loads
Creates(c) == c.op \in Classes /\ c.id = None

Loads(c) == c.op \in Classes /\ c.id # None

\* the held handles other than i that stand for the row i stands for
SameRow(i) ==
    {j \in Held \ {i} : /\ handles[j].cls = handles[i].cls
                        /\ handles[j]._id = handles[i]._id}

\* the data _init_data finds when c creates: what was supplied, with the
\* owner's id for the owner key when an owner was given and the key was not
DataFound(c) ==
    IF c.owner = None THEN c.data
    ELSE setdefault(c.data, OwnerKey(c.op), handles[c.owner]._id)

----------------------------------------------------------------------------
(* Properties *)

\* C1: round trip.  When an entity has been created with data that holds
\* all REQUIRED keys, constructing a second handle with the id it got
\* succeeds, and the second handle's snapshot holds, for every key of the
\* data that is a column, the value the data gave it.
C1_RoundTrip ==
    (Creates(last) /\ last.err = NoError
                   /\ REQUIRED(last.op) \subseteq DOMAIN last.data) =>
        LET r == Construct(last.op, handles, db, EmptyDict, None, TRUE,
                           handles[last.h]._id, TRUE)
        IN  /\ r.err = NoError
            /\ \A key \in DOMAIN last.data \cap Columns(TABLE(last.op)) :
                  r.hs[Len(handles) + 1]._data[key] = last.data[key]

\* C2: update() without keyword arguments succeeds on every handle held,
\* changes no persisted row, and changes of the handles only the snapshot
\* of the one it is called on, which becomes the row persisted for it.
C2_UpdateOnlyRefreshes ==
    [][(last'.op = "update" /\ last'.kwargs = EmptyDict) =>
          /\ last'.err = NoError
          /\ db' = db
          /\ handles' = [handles EXCEPT
                           ![last'.h]._data = RowOf(db, handles[last'.h])]]_vars

\* update() has refreshed a handle while another handle on the same row
\* still holds what the row held before
C2_Witness ==
    /\ last.op = "update" /\ last.kwargs = EmptyDict /\ last.err = NoError
    /\ handles[last.h]._data = RowOf(db, handles[last.h])
    /\ \E j \in SameRow(last.h) : handles[j]._data # handles[last.h]._data

\* C3: update(**kwargs) reads, then writes.  When it has returned, the row
\* it read was there, the snapshot holds for every column kwargs' value if
\* kwargs names it, and else what was persisted when the call began; the
\* persisted row holds the same; and no other row has changed.
C3_UpdateReadsThenWrites ==
    [][(last'.op = "update" /\ last'.err = NoError) =>
          LET h == handles[last'.h]
              kw == last'.kwargs
              expected == [c \in Columns(TABLE(h.cls)) |->
                              IF c \in DOMAIN kw THEN kw[c] ELSE RowOf(db, h)[c]]
          IN  /\ HasRow(db, TABLE(h.cls), h._id)
              /\ \A c \in Columns(TABLE(h.cls)) :
                    /\ c \in DOMAIN handles'[last'.h]._data
                    /\ handles'[last'.h]._data[c] = expected[c]
              /\ db' = [db EXCEPT ![TABLE(h.cls)][h._id] = expected]]_vars

\* update(c=2) has returned on a handle whose snapshot holds, for another
\* column, the value another handle on the row wrote and holds too
C3_Witness ==
    /\ last.op = "update" /\ last.kwargs # EmptyDict /\ last.err = NoError
    /\ \E c \in UpdateKeys(handles[last.h].cls) \ DOMAIN last.kwargs :
       \E j \in SameRow(last.h) :
          /\ handles[last.h]._data[c] = 2
          /\ handles[j]._data[c] = 2
          /\ \E k \in DOMAIN last.kwargs \cap DOMAIN handles[j]._data :
                handles[j]._data[k] # last.kwargs[k]

\* C4: staleness is resolved only explicitly.  Reading an attribute
\* changes neither the database nor any handle, and returns what the snapshot
\* holds; a handle's snapshot changes in no step but an update() called on
\* that handle; and when update() has returned, the snapshot is the row.
C4_StaleUntilUpdate ==
    [][/\ last'.op = "getattr" =>
            /\ UNCHANGED <<db, handles>>
            /\ last'.name \in DOMAIN handles[last'.h]._data =>
                  /\ last'.err = NoError
                  /\ last'.value = handles[last'.h]._data[last'.name]
       /\ \A i \in 1 .. Len(handles) :
            /\ i <= Len(handles')
            /\ handles'[i]._data # handles[i]._data =>
                  (last'.op = "update" /\ last'.h = i)
       /\ (last'.op = "update" /\ last'.kwargs = EmptyDict /\ last'.err = NoError) =>
            handles'[last'.h]._data = RowOf(db', handles'[last'.h])]_vars

\* an attribute read has returned a value the row no longer holds
C4_Witness ==
    /\ last.op = "getattr" /\ last.err = NoError
    /\ last.name \in Columns(TABLE(handles[last.h].cls))
    /\ last.value # RowOf(db, handles[last.h])[last.name]
    /\ last.value = handles[last.h]._data[last.name]

\* C5: creating, with a database that accepts the INSERT.  If the data
\* lacks a REQUIRED key the constructor fails with the missing-required-key
\* error, no row of the entity is inserted and the object has no id; if no
\* REQUIRED key is missing, it returns, exactly one row has been inserted
\* and its id is the object's.
C5_CreateChecksRequired ==
    [][(Creates(last') /\ last'.err \notin {"ValueError", "DatabaseError"}) =>
          LET table == TABLE(last'.op)
              n == last'.h
          IN  IF ~(REQUIRED(last'.op) \subseteq DOMAIN DataFound(last'))
              THEN /\ last'.err = "AttributeError: missing required data key"
                   /\ db'[table] = db[table]
                   /\ n <= Len(handles') => handles'[n]._id = None
              ELSE /\ last'.err = NoError
                   /\ Len(db'[table]) = Len(db[table]) + 1
                   /\ handles'[n]._id = Len(db'[table])]_vars

\* C6: identity stability.  No step that changes the database or a handle
\* changes an id a handle has or removes the handle; the rows a step
\* inserts into a table are as many as the
\* handles of the class that had no id and have one now, each of these has
\* the id of a row that did not exist before, and no two have the same.
C6_IdentityStable ==
    [][\/ UNCHANGED <<db, handles>>
       \/ /\ \A i \in 1 .. Len(handles) :
               handles[i]._id # None =>
                   (i <= Len(handles') /\ handles'[i]._id = handles[i]._id)
          /\ \A cls \in Classes :
               LET table == TABLE(cls)
                   assigned ==
                       {i \in 1 .. Len(handles') :
                           /\ handles'[i].cls = cls
                           /\ handles'[i]._id # None
                           /\ IF i <= Len(handles) THEN handles[i]._id = None
                                                   ELSE Creates(last')}
               IN  /\ Len(db'[table]) = Len(db[table]) + Cardinality(assigned)
                   /\ \A i \in assigned :
                         handles'[i]._id \in Len(db[table]) + 1 .. Len(db'[table])
                   /\ \A i, j \in assigned :
                         i # j => handles'[i]._id # handles'[j]._id]_vars

\* the id accessor has returned the id of a handle that stands for a row,
\* while another handle of the class stands for another row
C6_Witness ==
    /\ last.op = "id" /\ last.err = NoError
    /\ last.value = handles[last.h]._id
    /\ HasRow(db, TABLE(handles[last.h].cls), last.value)
    /\ \E j \in Held : /\ handles[j].cls = handles[last.h].cls
                       /\ handles[j]._id # last.value
                       /\ HasRow(db, TABLE(handles[j].cls), handles[j]._id)

\* C7: every Image handle held that was constructed with dataset=D and is
\* in D.images has D's id as its snapshot's ds_id and as its row's ds_id.
C7_ImageDsIdIsOwner ==
    \A i \in Held :
        (/\ handles[i].cls = "Image"
         /\ handles[i].dataset # None
         /\ i \in handles[handles[i].dataset].images) =>
            /\ handles[i]._data["ds_id"] = handles[handles[i].dataset]._id
            /\ RowOf(db, handles[i])["ds_id"] = handles[handles[i].dataset]._id

\* C8: every ExtractedSource handle held that was constructed with image=I
\* and is in I.sources has I's id as its snapshot's image_id and as its
\* row's image_id.
C8_SourceImageIdIsOwner ==
    \A i \in Held :
        (/\ handles[i].cls = "ExtractedSource"
         /\ handles[i].image # None
         /\ i \in handles[handles[i].image].sources) =>
            /\ handles[i]._data["image_id"] = handles[handles[i].image]._id
            /\ RowOf(db, handles[i])["image_id"] = handles[handles[i].image]._id

\* C9: not found.  A constructor given a database (its own or an owner's)
\* and an id no row of the table has fails with the error of the missing
\* row and changes no row; so does update() on a handle whose row is
\* absent; and a constructor that returns leaves a handle whose snapshot is
\* the row of its id.
C9_NotFound ==
    [][/\ (/\ Loads(last')
           /\ last'.database \/ last'.owner # None
           /\ ~HasRow(db, TABLE(last'.op), last'.id)) =>
                (last'.err = "IndexError" /\ db' = db)
       /\ (/\ last'.op = "update"
           /\ ~HasRow(db, TABLE(handles[last'.h].cls), handles[last'.h]._id)) =>
                (last'.err = "IndexError" /\ db' = db)
       /\ (last'.op \in Classes /\ last'.err = NoError) =>
            /\ HasRow(db', TABLE(last'.op), handles'[last'.h]._id)
            /\ Loads(last') =>
                  handles'[last'.h]._data = RowOf(db', handles'[last'.h])]_vars

\* C10: a constructor given an id changes no row, and when it returns the
\* handle has that id and its snapshot is exactly the row persisted for the
\* id, whatever data and owner were supplied.
C10_IdIgnoresData ==
    [][Loads(last') =>
          /\ db' = db
          /\ last'.err = NoError =>
                /\ handles'[last'.h]._id = last'.id
                /\ handles'[last'.h]._data = RowOf(db, handles'[last'.h])]_vars

\* a constructor given an id, an owner and data has returned a handle whose
\* snapshot differs from the data in a key
C10_Witness ==
    /\ Loads(last) /\ last.err = NoError
    /\ last.owner # None
    /\ \E key \in DOMAIN last.data :
          handles[last.h]._data[key] # last.data[key]

\* C11: a DataSet a constructor returns has no images; and when
\* update_images() has returned, the ids of the images in the set are
\* exactly the ids of the images rows whose ds_id is the dataset's id, no
\* object that existed before the call is in the set, and no row has
\* changed.
C11_UpdateImagesReloads ==
    [][/\ (last'.op = "DataSet" /\ last'.err = NoError) =>
            handles'[last'.h].images = {}
       /\ (last'.op = "update_images" /\ last'.err = NoError) =>
            LET images == handles'[last'.h].images
            IN  /\ {handles'[j]._id : j \in images}
                      = SelectImageIds(db, handles[last'.h]._id)
                /\ images \cap (1 .. Len(handles)) = {}
                /\ db' = db]_vars

\* update_images() has returned on a dataset that has an image, leaving
\* out of the set an image object constructed with this dataset
C11_Witness ==
    /\ last.op = "update_images" /\ last.err = NoError
    /\ handles[last.h].images # {}
    /\ \E j \in Held : /\ handles[j].cls = "Image"
                       /\ handles[j].dataset = last.h
                       /\ j \notin handles[last.h].images

\* C12: when Image(data, dataset=D) has created an image, the row
\* inserted has D's id as ds_id, D.images is what it was with the new object
\* added, the objects that were in D.images are as they were, and the set of
\* no other object has changed.
C12_ImageCreateRegisters ==
    [][(last'.op = "Image" /\ Creates(last') /\ last'.owner # None
                           /\ last'.err = NoError) =>
          LET n == last'.h
              D == last'.owner
          IN  /\ ~HasRow(db, "images", handles'[n]._id)
              /\ RowOf(db', handles'[n])["ds_id"] = handles[D]._id
              /\ handles'[D].images = handles[D].images \cup {n}
              /\ \A j \in handles[D].images : handles'[j] = handles[j]
              /\ \A j \in 1 .. Len(handles) :
                    j # D => handles'[j].images = handles[j].images]_vars

\* a second image has been created with the same dataset, its data naming
\* another ds_id than the dataset's id
C12_Witness ==
    /\ last.op = "Image" /\ Creates(last) /\ last.err = NoError
    /\ last.owner # None
    /\ "ds_id" \in DOMAIN last.data
    /\ last.data["ds_id"] # handles[last.owner]._id
    /\ handles[last.owner].images \ {last.h} # {}

\* C13: update(**kwargs) with keywords returns without exception; the row
\* is what it was with the keywords that are columns written; and the
\* snapshot afterwards has no key that is not a column and equals the row.
C13_ApplyIgnoresOtherKeys ==
    [][(last'.op = "update" /\ last'.kwargs # EmptyDict) =>
          LET h == handles[last'.h]
              table == TABLE(h.cls)
              kw == last'.kwargs
          IN  /\ last'.err = NoError
              /\ db' = [db EXCEPT ![table][h._id] =
                          [c \in Columns(table) |->
                              IF c \in DOMAIN kw THEN kw[c] ELSE @[c]]]
              /\ DOMAIN handles'[last'.h]._data \subseteq Columns(table)
              /\ handles'[last'.h]._data = RowOf(db', h)]_vars

\* C14: match_monitoringlist on an Image handle held, however it was
\* constructed, raises nothing and calls the matcher exactly once, with the
\* ds_id of the image's row as the dataset id, and as the image id the
\* image's id if update_image_column is true and -1 if it is false.
C14_MatchMonitoringlistScoped ==
    [][last'.op = "match_monitoringlist" =>
          /\ last'.err = NoError
          /\ last'.calls =
                <<[dataset_id |-> RowOf(db, handles[last'.h])["ds_id"],
                   image_id |-> IF last'.flag THEN handles[last'.h]._id ELSE -1]>>]_vars

\* C15: an association pass for an image with start time t is never run
\* after the pass of an image of the same dataset with a start time greater
\* than t.
C15_PassesOrderedByEpoch ==
    [][last'.op = "associate_extracted_sources" =>
          LET p == Pass(db, last'.calls[1].image_id)
          IN  \A q \in passes : q[1] = p[1] => q[2] <= p[2]]_vars

\* C17: monitoringsources(include_current) raises nothing and asks once for
\* the monitoring positions of the image's dataset, the one the ds_id of the
\* image's row names, excluding no image if include_current is true and
\* this image's own id if it is false; neither the handles nor the database
\* change.
C17_MonitoringsourcesQuery ==
    [][last'.op = "monitoringsources" =>
          LET self == handles[last'.h]
          IN  /\ last'.err = NoError
              /\ last'.calls =
                    <<[dataset_id |-> RowOf(db, self)["ds_id"],
                       exclude_image_id |-> IF last'.flag THEN None ELSE self._id]>>
              /\ UNCHANGED <<db, handles>>]_vars

\* C18: a constructor call that raises leaves the owner it was given as it
\* was: Image(..., dataset=D) that fails leaves D.images the same set, and
\* ExtractedSource(..., image=I) that fails leaves I.sources the same set;
\* and every member of the owner's set has an id.
C18_FailedConstructionLeavesOwner ==
    [][(last'.op \in {"Image", "ExtractedSource"} /\ last'.owner # None
          /\ last'.err # NoError) =>
          LET owner == last'.owner
          IN  /\ handles'[owner].images = handles[owner].images
              /\ handles'[owner].sources = handles[owner].sources
              /\ \A j \in handles'[owner].images \cup handles'[owner].sources :
                    handles'[j]._id # None]_vars

\* C19: in every state a DataSet's images hold at most one handle for any
\* image id, and an Image's sources at most one handle for any source id.
C19_OneHandlePerIdentity ==
    \A i \in 1 .. Len(handles) :
       \A j, k \in handles[i].images \cup handles[i].sources :
          (handles[j]._id # None /\ handles[j]._id = handles[k]._id) => j = k

\* C20: every handle a constructor has returned has a database and an id
\* that names a row of its table; and a call that ends with a database error
\* has inserted nothing, has given no handle an id, and has left the object
\* whose insert failed, if it is still referred to, without an id.
C20_IdentityNamesInsertedRow ==
    [][\/ UNCHANGED <<db, handles>>
       \/ /\ \A i \in 1 .. Len(handles') :
                handles'[i].returned =>
                   /\ handles'[i].database
                   /\ handles'[i]._id # None
                   /\ HasRow(db', TABLE(handles'[i].cls), handles'[i]._id)
          /\ last'.err = "DatabaseError" =>
                /\ db' = db
                /\ \A j \in 1 .. Len(handles) : handles'[j]._id = handles[j]._id
                /\ \A j \in Len(handles) + 1 .. Len(handles') :
                      handles'[j]._id = None]_vars

\* the database has refused the insert of a new source of an image: the
\* call has ended with the error, the object is in the image's sources and
\* has no id
C20_Witness ==
    /\ last.op = "ExtractedSource"
    /\ last.err = "DatabaseError"
    /\ last.owner # None
    /\ last.h \in handles[last.owner].sources
    /\ handles[last.h]._id = None
    /\ handles[last.owner].returned
    /\ HasRow(db, "images", handles[last.owner]._id)

====
